---- MODULE Spec2Model ----
(***************************************************************************)
(* A model of scripts/suggest_docs.py: the sequential pipeline of main().  *)
(* Text is a sequence of one-character strings, so that strip, splitlines, *)
(* split, startswith and endswith are computed as Python computes them.    *)
(***************************************************************************)
EXTENDS Integers, Sequences, FiniteSets, TLC

VARIABLES
    pc,             \* position of main(): start, setup, inventory, relevance, revise, publish, done, crashed
    dry_run,        \* args.dry_run
    docs_subfolder, \* os.environ.get("DOCS_SUBFOLDER"); <<>> when unset
    subfolder_exists, \* os.path.exists(docs_subfolder)
    diff_out,       \* stdout of the git diff that get_diff runs
    diff,           \* main's local diff
    disk,           \* the documentation tree: path -> content
    disk0,          \* the documentation tree before the run (history)
    unreadable,     \* paths whose open()/read_text() raises
    cwd,            \* the process working directory
    cmds,           \* the subprocess commands run so far, in order
    file_data,      \* get_file_content_or_summaries: list of <<path, preview>>
    j,              \* get_file_content_or_summaries: files of doc_files handled
    i,              \* ask_gemini_for_relevant_files: loop variable i
    relevant_files, \* all_relevant_files / main's relevant_files
    k,              \* main: candidates of relevant_files handled
    modified_files, \* main's modified_files
    log,            \* the console: set of <<kind, path>> lines printed
    summarized,     \* paths given to summarize_long_file (history)
    batches,        \* batch numbers requested from the service (history)
    revised,        \* paths given to ask_gemini_for_updated_content, in order (history)
    answers,        \* revision answers received: set of <<path, response text>>
    written,        \* paths whose overwrite_file returned True (history)
    published       \* lists handed to push_and_open_pr, in order (history)

vars == <<pc, dry_run, docs_subfolder, subfolder_exists, diff_out, diff, disk, disk0,
          unreadable, cwd, cmds, file_data, j, i, relevant_files, k, modified_files,
          log, summarized, batches, revised, answers, written, published>>

(* ------------------------------ bounds -------------------------------- *)
MaxFiles == 11      \* most documentation files in the tree
LineSlack == 1      \* file lengths tried on either side of line_threshold

(* ------------------------- program constants -------------------------- *)
batch_size == 10
line_threshold == 300
BRANCH_NAME == "doc-update-from-pr"

(* ------------------------------- text --------------------------------- *)
Whitespace == {" ", "\n", "\t", "\r"}

RECURSIVE LStrip(_)
LStrip(s) == IF s # <<>> /\ Head(s) \in Whitespace THEN LStrip(Tail(s)) ELSE s

RECURSIVE RStrip(_)
RStrip(s) ==
    IF s # <<>> /\ s[Len(s)] \in Whitespace THEN RStrip(SubSeq(s, 1, Len(s) - 1)) ELSE s

\* str.strip()
Strip(s) == RStrip(LStrip(s))

\* str.startswith / str.endswith
StartsWith(s, p) == Len(s) >= Len(p) /\ SubSeq(s, 1, Len(p)) = p
EndsWith(s, e) == Len(s) >= Len(e) /\ SubSeq(s, Len(s) - Len(e) + 1, Len(s)) = e

\* len(content.split('\n')): one more than the number of newline characters
SplitCount(s) == Cardinality({p \in 1..Len(s) : s[p] = "\n"}) + 1

\* str.splitlines() on text whose only line break is "\n": no empty last line
RECURSIVE SplitLines(_, _)
SplitLines(s, cur) ==
    IF s = <<>> THEN (IF cur = <<>> THEN <<>> ELSE <<cur>>)
    ELSE IF Head(s) = "\n" THEN <<cur>> \o SplitLines(Tail(s), <<>>)
    ELSE SplitLines(Tail(s), Append(cur, Head(s)))

\* str.upper() on the letters the responses use
UpperChar(c) ==
    CASE c = "n" -> "N" [] c = "o" -> "O" [] c = "e" -> "E" [] OTHER -> c
Upper(s) == [p \in 1..Len(s) |-> UpperChar(s[p])]

MD == <<".", "m", "d">>
ADOC == <<".", "a", "d", "o", "c">>
NONE == <<"N", "O", "N", "E">>
NO_UPDATE_NEEDED ==
    <<"N", "O", "_", "U", "P", "D", "A", "T", "E", "_", "N", "E", "E", "D", "E", "D">>

(* ------------------------------ paths --------------------------------- *)
DOCS == <<"d", "o", "c", "s">>
Letters == <<"a", "b", "c", "d", "e", "f", "g", "h", "i", "j", "k", "l", "m", "n",
             "o", "p", "q", "r">>

\* the n-th documentation file of the tree: a.adoc, docs-g.md, c.adoc, d.md, ...
DocPath(n) ==
    (IF n = 2 THEN DOCS \o <<"-", "g">> ELSE <<Letters[n]>>)
        \o (IF n % 2 = 1 THEN ADOC ELSE MD)

AllPaths == [n \in 1..MaxFiles |-> DocPath(n)]

MAIN_GO == <<"s", "r", "c", "/", "m", "a", "i", "n", ".", "g", "o">>
ZZ_MD == <<"z", "z">> \o MD

(* ------------------------- the documentation tree --------------------- *)
SmallContent == <<"t", "\n">>

\* a text of n lines "x", the last one ended by a newline or not
MakeContent(n, nl) ==
    [p \in 1..(IF nl THEN 2 * n ELSE 2 * n - 1) |-> IF p % 2 = 1 THEN "x" ELSE "\n"]

PlainDisk(n) == [p \in {DocPath(m) : m \in 1..n} |-> SmallContent]

FileCounts == {0, 1, 2, batch_size} \cup ((batch_size + 1)..MaxFiles)

Worlds ==
    {[disk |-> PlainDisk(n), unreadable |-> {}] : n \in FileCounts}
    \cup {[disk |-> [PlainDisk(n) EXCEPT ![DocPath(1)] = <<>>], unreadable |-> {}] :
             n \in {1, 2}}
    \cup {[disk |-> PlainDisk(n), unreadable |-> {DocPath(1)}] : n \in {1, 2}}
    \cup {[disk |-> [p \in {DocPath(1)} |-> MakeContent(n, nl)], unreadable |-> {}] :
             n \in (line_threshold - LineSlack)..(line_threshold + LineSlack),
             nl \in BOOLEAN}
    \* a long first file (left out of the inventory when its summary fails)
    \* next to a short one
    \cup {[disk |-> [PlainDisk(2) EXCEPT ![DocPath(1)] =
                        MakeContent(line_threshold + 1, TRUE)],
           unreadable |-> {}]}

(* ----------------------- external-service answers --------------------- *)
\* an answer of the service: a response with text, a call that raises, or a
\* response whose .text is None (so that .strip() raises)
Resp(t) == [kind |-> "text", text |-> t]
Faults == {[kind |-> "raises", text |-> <<>>], [kind |-> "no_text", text |-> <<>>]}

NL == <<"\n">>

RelevanceResponses ==
    Faults \cup
    { Resp(t) : t \in
        { NONE,
          <<"n", "o", "n", "e", "\n">>,
          <<>>,
          MAIN_GO \o NL \o DocPath(2),
          <<" ">> \o DocPath(1) \o <<" ">> \o NL \o NL \o ZZ_MD,
          DocPath(1) \o NL \o DocPath(1) } }

ReviseResponses ==
    Faults \cup
    { Resp(t) : t \in
        { NO_UPDATE_NEEDED,
          <<" ">> \o NO_UPDATE_NEEDED \o NL,
          <<"n", "e", "w", "\n">>,
          <<>> } }

SummaryResponses == Faults \cup { Resp(<<"s", "u", "m", "\n">>) }

(* ------------------------------- Init --------------------------------- *)
Init ==
    /\ pc = "start"
    /\ dry_run \in BOOLEAN
    /\ \E e \in {<<<<>>, FALSE>>, <<DOCS, FALSE>>, <<DOCS, TRUE>>} :
          docs_subfolder = e[1] /\ subfolder_exists = e[2]
    /\ diff_out \in {<<>>, <<"+", "\n">>}
    /\ diff = <<>>
    /\ \E w \in Worlds : disk = w.disk /\ unreadable = w.unreadable
    /\ disk0 = disk
    /\ cwd = "root"
    /\ cmds = <<>>
    /\ file_data = <<>>
    /\ j = 0
    /\ i = 0
    /\ relevant_files = <<>>
    /\ k = 0
    /\ modified_files = <<>>
    /\ log = {}
    /\ summarized = {}
    /\ batches = {}
    /\ revised = <<>>
    /\ answers = {}
    /\ written = {}
    /\ published = <<>>

Logged(kind, path) == log \cup {<<kind, path>>}

Cmd(name, args) == [name |-> name, args |-> args]

(* ------------------------------ get_diff ------------------------------ *)
\* get_diff: result.stdout.strip()
get_diff == Strip(diff_out)

\* MainGetDiff without the early return
MainGetDiffNoReturn ==
    /\ pc = "start"
    /\ diff' = get_diff
    /\ pc' = "setup"
    /\ UNCHANGED <<dry_run, docs_subfolder, subfolder_exists, diff_out, disk, disk0,
                   unreadable, cwd, cmds, file_data, j, i, relevant_files, k,
                   modified_files, log, summarized, batches, revised, answers, written,
                   published>>

\* main, up to the early return on an empty diff
MainGetDiff ==
    /\ pc = "start"
    /\ diff' = get_diff
    /\ IF diff' = <<>>
         THEN /\ log' = Logged("No changes detected.", <<>>)
              /\ pc' = "done"
         ELSE /\ log' = log
              /\ pc' = "setup"
    /\ UNCHANGED <<dry_run, docs_subfolder, subfolder_exists, diff_out, disk, disk0,
                   unreadable, cwd, cmds, file_data, j, i, relevant_files, k,
                   modified_files, summarized, batches, revised, answers, written,
                   published>>

(* ------------------------ setup_docs_environment ---------------------- *)
\* setup_docs_environment, and main's return when it fails
SetupDocsEnvironment ==
    /\ pc = "setup"
    /\ IF docs_subfolder # <<>>
         THEN IF ~subfolder_exists
                THEN /\ log' = Logged("Failed to set up docs environment", <<>>)
                     /\ pc' = "done"
                     /\ UNCHANGED <<cwd, cmds>>
                ELSE /\ cwd' = "subfolder"
                     /\ pc' = "inventory"
                     /\ UNCHANGED <<log, cmds>>
         ELSE /\ cwd' = "docs_repo"
              /\ pc' = "inventory"
              /\ \E branch_exists \in BOOLEAN :
                    cmds' = cmds \o <<Cmd("git clone", <<>>), Cmd("git ls-remote", <<>>)>>
                        \o (IF branch_exists
                              THEN <<Cmd("git fetch", <<BRANCH_NAME>>), Cmd("git checkout", <<BRANCH_NAME>>),
                                     Cmd("git pull", <<BRANCH_NAME>>)>>
                              ELSE <<Cmd("git checkout -b", <<BRANCH_NAME>>)>>)
              /\ log' = log
    /\ UNCHANGED <<dry_run, docs_subfolder, subfolder_exists, diff_out, diff, disk, disk0,
                   unreadable, file_data, j, i, relevant_files, k, modified_files,
                   summarized, batches, revised, answers, written, published>>

(* --------------------- get_file_content_or_summaries ------------------ *)
\* the supported documentation extensions
IsDocPath(f) == EndsWith(f, ADOC) \/ EndsWith(f, MD)

\* Path(".").rglob("*.adoc") followed by Path(".").rglob("*.md")
DocFiles(d) ==
    SelectSeq(AllPaths, LAMBDA p : p \in DOMAIN d /\ EndsWith(p, ADOC))
        \o SelectSeq(AllPaths, LAMBDA p : p \in DOMAIN d /\ EndsWith(p, MD))

\* the test that sends a file to summarize_long_file
IsLong(content) == SplitCount(content) > line_threshold

\* one iteration of the loop over doc_files
InventoryStep ==
    /\ pc = "inventory"
    /\ j < Len(DocFiles(disk))
    /\ LET path == DocFiles(disk)[j + 1] IN
         IF path \in unreadable
           THEN /\ log' = Logged("Skipping file", path)
                /\ UNCHANGED <<file_data, summarized>>
           ELSE LET content == disk[path] IN
                  IF IsLong(content)
                    THEN /\ summarized' = summarized \cup {path}
                         /\ \E r \in SummaryResponses :
                               IF r \in Faults
                                 THEN /\ log' = Logged("Skipping file", path)
                                      /\ file_data' = file_data
                                 ELSE /\ log' = Logged("Processed (using AI summary)", path)
                                      /\ file_data' = Append(file_data, <<path, Strip(r.text)>>)
                    ELSE /\ log' = Logged("Processed (using full content)", path)
                         /\ file_data' = Append(file_data, <<path, content>>)
                         /\ summarized' = summarized
    /\ j' = j + 1
    /\ UNCHANGED <<pc, dry_run, docs_subfolder, subfolder_exists, diff_out, diff, disk,
                   disk0, unreadable, cwd, cmds, i, relevant_files, k, modified_files,
                   batches, revised, answers, written, published>>

\* the end of the loop, and main's return on an empty inventory
InventoryDone ==
    /\ pc = "inventory"
    /\ j = Len(DocFiles(disk))
    /\ IF file_data = <<>>
         THEN /\ log' = Logged("No documentation files found to process.", <<>>)
              /\ pc' = "done"
         ELSE /\ log' = log
              /\ pc' = "relevance"
    /\ UNCHANGED <<dry_run, docs_subfolder, subfolder_exists, diff_out, diff, disk, disk0,
                   unreadable, cwd, cmds, file_data, j, i, relevant_files, k,
                   modified_files, summarized, batches, revised, answers, written,
                   published>>

(* --------------------- ask_gemini_for_relevant_files ------------------ *)
splitlines(s) == SplitLines(s, <<>>)

\* [line.strip() for line in result_text.splitlines() if line.strip()]
SuggestedFiles(result_text) ==
    LET lines == splitlines(result_text)
        stripped == [n \in 1..Len(lines) |-> Strip(lines[n])]
    IN  SelectSeq(stripped, LAMBDA f : f # <<>>)

\* FilteredFiles without the filter
FilteredFilesAll(suggested_files) == suggested_files

\* [f for f in suggested_files if f.endswith('.adoc') or f.endswith('.md')]
FilteredFiles(suggested_files) == SelectSeq(suggested_files, IsDocPath)

\* result_text.upper() == "NONE"
IsNone(result_text) == Upper(result_text) = NONE

\* one iteration of the loop over the batches; a raising call leaves the
\* function and main, nothing catches it
RelevanceBatch ==
    /\ pc = "relevance"
    /\ i < Len(file_data)
    /\ batches' = batches \cup {(i \div batch_size) + 1}
    /\ \E r \in RelevanceResponses :
          IF r \in Faults
            THEN /\ pc' = "crashed"
                 /\ UNCHANGED <<i, relevant_files, log>>
            ELSE LET result_text == Strip(r.text)
                     suggested_files == SuggestedFiles(result_text)
                     filtered_files == FilteredFiles(suggested_files)
                 IN  /\ pc' = pc
                     /\ i' = i + batch_size
                     /\ IF IsNone(result_text)
                          THEN /\ relevant_files' = relevant_files
                               /\ log' = Logged("No relevant files found", <<>>)
                          ELSE /\ relevant_files' = relevant_files \o filtered_files
                               /\ log' = log \cup
                                     {<<"Skipping non-documentation files", suggested_files[n]>> :
                                        n \in {m \in 1..Len(suggested_files) :
                                                 ~IsDocPath(suggested_files[m])}}
    /\ UNCHANGED <<dry_run, docs_subfolder, subfolder_exists, diff_out, diff, disk, disk0,
                   unreadable, cwd, cmds, file_data, j, k, modified_files, summarized,
                   revised, answers, written, published>>

\* the end of the loop, and main's return on an empty candidate list
RelevanceDone ==
    /\ pc = "relevance"
    /\ i >= Len(file_data)
    /\ IF relevant_files = <<>>
         THEN /\ log' = Logged("Gemini did not suggest any files.", <<>>)
              /\ pc' = "done"
         ELSE /\ log' = log
              /\ pc' = "revise"
    /\ UNCHANGED <<dry_run, docs_subfolder, subfolder_exists, diff_out, diff, disk, disk0,
                   unreadable, cwd, cmds, file_data, j, i, relevant_files, k,
                   modified_files, summarized, batches, revised, answers, written,
                   published>>

(* ------------------------- the revision loop -------------------------- *)
\* load_full_content can read the file
CanRead(file_path) == file_path \in DOMAIN disk /\ file_path \notin unreadable

\* load_full_content: the text, or "" after a failed read
load_full_content(file_path) == IF CanRead(file_path) THEN disk[file_path] ELSE <<>>

\* IsNoUpdate testing for the other sentinel
IsNoUpdateNone(updated) == Strip(updated) = NONE

\* updated.strip() == "NO_UPDATE_NEEDED"
IsNoUpdate(updated) == Strip(updated) = NO_UPDATE_NEEDED

\* one iteration of main's loop over relevant_files; a raising call leaves
\* main, nothing catches it
ReviseStep ==
    /\ pc = "revise"
    /\ k < Len(relevant_files)
    /\ LET file_path == relevant_files[k + 1]
           current == load_full_content(file_path)
           read_log == IF CanRead(file_path) THEN log ELSE Logged("Failed to read", file_path)
       IN  IF current = <<>>
             THEN /\ log' = read_log
                  /\ k' = k + 1
                  /\ UNCHANGED <<pc, disk, modified_files, revised, answers, written>>
             ELSE /\ revised' = Append(revised, file_path)
                  /\ \E r \in ReviseResponses, write_ok \in BOOLEAN :
                        IF r \in Faults
                          THEN /\ pc' = "crashed"
                               /\ log' = Logged("Checking", file_path)
                               /\ UNCHANGED <<k, disk, modified_files, answers, written>>
                          ELSE LET updated == Strip(r.text) IN
                               /\ pc' = pc
                               /\ k' = k + 1
                               /\ answers' = answers \cup {<<file_path, r.text>>}
                               /\ IF IsNoUpdate(updated)
                                    THEN /\ log' = Logged("Checking", file_path)
                                                     \cup {<<"No update needed", file_path>>}
                                         /\ UNCHANGED <<disk, modified_files, written>>
                                    ELSE IF dry_run
                                      THEN /\ log' = Logged("Checking", file_path)
                                                       \cup {<<"[Dry Run] Would update", file_path>>}
                                           /\ UNCHANGED <<disk, modified_files, written>>
                                      ELSE IF write_ok
                                        THEN /\ log' = Logged("Checking", file_path)
                                                         \cup {<<"Updating", file_path>>}
                                             /\ disk' = [disk EXCEPT ![file_path] = updated]
                                             /\ modified_files' = Append(modified_files, file_path)
                                             /\ written' = written \cup {file_path}
                                        ELSE /\ log' = Logged("Checking", file_path)
                                                         \cup {<<"Updating", file_path>>,
                                                               <<"Failed to write", file_path>>}
                                             /\ UNCHANGED <<disk, modified_files, written>>
    /\ UNCHANGED <<dry_run, docs_subfolder, subfolder_exists, diff_out, diff, disk0,
                   unreadable, cwd, cmds, file_data, j, i, relevant_files, summarized,
                   batches, published>>

\* the end of the loop: main's test of modified_files
ReviseDone ==
    /\ pc = "revise"
    /\ k = Len(relevant_files)
    /\ IF modified_files # <<>>
         THEN /\ pc' = "publish"
              /\ log' = log
         ELSE /\ pc' = "done"
              /\ log' = Logged("All documentation is already up to date", <<>>)
    /\ UNCHANGED <<dry_run, docs_subfolder, subfolder_exists, diff_out, diff, disk, disk0,
                   unreadable, cwd, cmds, file_data, j, i, relevant_files, k,
                   modified_files, summarized, batches, revised, answers, written,
                   published>>

(* ------------------------------ publishing ---------------------------- *)
\* what get_commit_info returned: None, a dict with pr_number, a dict without
CommitInfos == {"none", "pr", "commit"}

\* the commit message push_and_open_pr builds, line by line
CommitMsg(commit_info) ==
    <<"Auto-generated doc updates from code changes">>
        \o (CASE commit_info = "pr" -> <<"PR Link", "Latest commit">>
              [] commit_info = "commit" -> <<"Commit Link", "Latest commit">>
              [] OTHER -> <<>>)
        \o <<"Assisted-by: Gemini">>

\* the commands of push_and_open_pr(modified_files, commit_info)
push_and_open_pr(files, commit_info) ==
    << Cmd("git add", files),
       Cmd("git commit", CommitMsg(commit_info)),
       Cmd("git config --unset-all", <<>>),
       Cmd("git remote set-url", <<>>),
       Cmd("git push", <<BRANCH_NAME>>),
       Cmd("gh pr create", files) >>

\* f"{docs_subfolder}/{f}" if not f.startswith(docs_subfolder) else f
PrefixPath(subfolder, f) ==
    IF ~StartsWith(f, subfolder) THEN subfolder \o <<"/">> \o f ELSE f

\* main's docs_files
DocsFiles(subfolder, files) == [n \in 1..Len(files) |-> PrefixPath(subfolder, files[n])]

\* main's last block, entered with modified_files non-empty. commit_info was
\* read by get_commit_info before setup and is used only here.
MainPublish ==
    /\ pc = "publish"
    /\ pc' = "done"
    /\ IF dry_run
         THEN /\ log' = log \cup {<<"[Dry Run] Would push", modified_files[n]>> :
                                    n \in 1..Len(modified_files)}
              /\ UNCHANGED <<cwd, cmds, published>>
         ELSE \E commit_info \in CommitInfos :
                IF docs_subfolder # <<>>
                  THEN LET docs_files == DocsFiles(docs_subfolder, modified_files) IN
                       /\ cwd' = "root"
                       /\ cmds' = cmds \o <<Cmd("git checkout -b", <<BRANCH_NAME>>)>>
                                       \o push_and_open_pr(docs_files, commit_info)
                       /\ published' = Append(published, docs_files)
                       /\ log' = Logged("Same-repo scenario", <<>>)
                  ELSE /\ cwd' = cwd
                       /\ cmds' = cmds \o push_and_open_pr(modified_files, commit_info)
                       /\ published' = Append(published, modified_files)
                       /\ log' = Logged("Separate-repo scenario", <<>>)
    /\ UNCHANGED <<dry_run, docs_subfolder, subfolder_exists, diff_out, diff, disk, disk0,
                   unreadable, file_data, j, i, relevant_files, k, modified_files,
                   summarized, batches, revised, answers, written>>

(* ---------------------------- specification --------------------------- *)
Next ==
    \/ MainGetDiff
    \/ SetupDocsEnvironment
    \/ InventoryStep
    \/ InventoryDone
    \/ RelevanceBatch
    \/ RelevanceDone
    \/ ReviseStep
    \/ ReviseDone
    \/ MainPublish

Spec == Init /\ [][Next]_vars

(* ------------------------------- claims ------------------------------- *)
Range(s) == {s[n] : n \in 1..Len(s)}

Terminated == pc \in {"done", "crashed"}

\* commands that write to the filesystem, to the repository or to the remote
WritingCmds ==
    {"git clone", "git fetch", "git checkout", "git pull", "git checkout -b", "git add",
     "git commit", "git config --unset-all", "git remote set-url", "git push",
     "gh pr create"}

\* C1: with the dry-run flag set, a run overwrites no documentation file, creates
\* no directory or branch, runs no git add / commit / push / gh pr create, and
\* reports every file whose revision answer is not the sentinel as a would-be update.
C1_DryRunNoSideEffects ==
    dry_run =>
        /\ disk = disk0
        /\ \A n \in 1..Len(cmds) : cmds[n].name \notin WritingCmds
        /\ \A a \in answers :
              Strip(a[2]) # NO_UPDATE_NEEDED => <<"[Dry Run] Would update", a[1]>> \in log

\* C2: when get_diff returns the empty string, main ends normally and has not
\* changed directory, cloned, enumerated files, called the service, overwritten
\* a file or published, whatever the dry-run flag and the workspace mode.
C2_EmptyDiffNoAction ==
    (pc # "start" /\ Strip(diff_out) = <<>>) =>
        /\ pc = "done"
        /\ cwd = "root"
        /\ cmds = <<>>
        /\ j = 0 /\ file_data = <<>>
        /\ summarized = {} /\ batches = {} /\ revised = <<>>
        /\ disk = disk0
        /\ published = <<>>

C2_Witness == pc = "done" /\ diff_out = <<>> /\ ~dry_run /\ docs_subfolder = <<>>

\* C3: every path returned by ask_gemini_for_relevant_files, and every path
\* passed to ask_gemini_for_updated_content, ends with .adoc or .md.
C3_OnlyDocExtensions ==
    /\ \A f \in Range(relevant_files) : EndsWith(f, ADOC) \/ EndsWith(f, MD)
    /\ \A f \in Range(revised) : EndsWith(f, ADOC) \/ EndsWith(f, MD)

\* the response "src/main.go\ndocs-g.md" was filtered: main.go logged as skipped,
\* docs-g.md survived and reached the reviser
C3_Witness ==
    /\ <<"Skipping non-documentation files", MAIN_GO>> \in log
    /\ DocPath(2) \in Range(relevant_files)
    /\ DocPath(2) \in Range(revised)

\* the candidate files every revision answer of which was, trimmed, the sentinel
SentinelFiles ==
    {f \in {a[1] : a \in answers} :
        \A a \in answers : a[1] = f => Strip(a[2]) = NO_UPDATE_NEEDED}

TotalBatches == (Len(file_data) + batch_size - 1) \div batch_size

\* C5: a batch whose service call fails contributes nothing and does not stop
\* the selection: once the run is over, every batch of the inventory was requested.
C5_BatchFaultIsolated ==
    (Terminated /\ batches # {}) => batches = 1..TotalBatches

\* C6: a candidate whose revision call fails is skipped: once the run is over
\* every candidate was handled, and the files written were published.
C6_ReviseFaultIsolated ==
    (Terminated /\ revised # <<>>) =>
        /\ k = Len(relevant_files)
        /\ (written # {} => published # <<>>)

\* the path of the subfolder's file p, seen from the repository root
UnderSubfolder(subfolder, p) == subfolder \o <<"/">> \o p

\* C7: in same-repository mode the path given to git add for a modified path p is
\* S/p unless p already begins with S/, and p itself only in that case.
C7_SubfolderPrefix ==
    (docs_subfolder # <<>> /\ published # <<>>) =>
        /\ Len(published[1]) = Len(modified_files)
        /\ \A n \in 1..Len(modified_files) :
              published[1][n] =
                  IF StartsWith(modified_files[n], docs_subfolder \o <<"/">>)
                    THEN modified_files[n]
                    ELSE UnderSubfolder(docs_subfolder, modified_files[n])

\* the files written in this run, as paths of the directory git add runs in
WrittenForGit ==
    IF docs_subfolder # <<>>
      THEN {UnderSubfolder(docs_subfolder, p) : p \in written}
      ELSE written

\* C8: the Publisher runs at most once, only in a non-dry run that wrote a file,
\* and stages (and lists in the PR body) exactly the files written in this run.
C8_StagesExactlyWritten ==
    /\ Len(published) <= 1
    /\ Cardinality({n \in 1..Len(cmds) : cmds[n].name = "git add"}) = Len(published)
    /\ published # <<>> =>
          /\ ~dry_run
          /\ written # {}
          /\ Range(published[1]) = WrittenForGit
          /\ \A n \in 1..Len(cmds) :
                cmds[n].name \in {"git add", "gh pr create"} => cmds[n].args = published[1]

\* the log lines that name a file and why it was not updated
SkipReasons == {"Failed to read", "No update needed", "Failed to write", "[Dry Run] Would update"}

\* C9: every candidate the loop has passed without updating it has a log line
\* naming it and the reason.
C9_NoSilentSkip ==
    \A n \in 1..k :
        \/ relevant_files[n] \in written
        \/ \E reason \in SkipReasons : <<reason, relevant_files[n]>> \in log

\* the number of newline-delimited lines of a text: a final newline ends the
\* last line, it does not start another
NumLines(content) ==
    LET newlines == Cardinality({p \in 1..Len(content) : content[p] = "\n"})
    IN  IF content = <<>> \/ content[Len(content)] = "\n" THEN newlines ELSE newlines + 1

\* C10: a readable file of at most line_threshold lines has its content as
\* preview and is not summarized; only a longer file is summarized.
C10_PreviewThreshold ==
    /\ \A f \in summarized : NumLines(disk0[f]) > line_threshold
    /\ \A n \in 1..Len(file_data) :
          NumLines(disk0[file_data[n][1]]) <= line_threshold
              => file_data[n][2] = disk0[file_data[n][1]]

\* the paths of the inventory get_file_content_or_summaries returned
InventoryPaths == {file_data[n][1] : n \in 1..Len(file_data)}

\* C11: every path of the candidate list is a path of the inventory sent to the
\* service, so no path outside the inventory is loaded, revised or overwritten.
C11_CandidatesFromInventory ==
    /\ \A f \in Range(relevant_files) : f \in InventoryPaths
    /\ \A f \in Range(revised) : f \in InventoryPaths
    /\ \A f \in written : f \in InventoryPaths

\* C11, its last part alone: no file outside the inventory is overwritten.
C11_NoWriteOutsideInventory == \A f \in written : f \in InventoryPaths

\* no element of the list occurs twice
NoDuplicates(s) == \A m, n \in 1..Len(s) : s[m] = s[n] => m = n

\* C12: a path the responses name more than once is given to the reviser at most
\* once and is at most once in the modified-files list staged and listed in the PR.
C12_EachPathOnce ==
    /\ NoDuplicates(revised)
    /\ NoDuplicates(modified_files)
    /\ \A n \in 1..Len(published) : NoDuplicates(published[n])

\* C12, its last part alone: no path is staged twice.
C12_StagedOnce == \A n \in 1..Len(published) : NoDuplicates(published[n])
====
